---- MODULE Spec2Model ----
(***************************************************************************)
(* Model of server.js: the Express application with its pg connection      *)
(* pool, the startup table initialisation, the nodemailer transport and    *)
(* the routes GET /, GET /submissions.html, POST /submit, GET /submissions.*)
(* Every await of the source is a point where the handler is suspended and *)
(* other handlers may run; the outcome of each external call (database,    *)
(* mail relay, file system) is chosen by the environment.                  *)
(***************************************************************************)
EXTENDS Integers, Sequences, FiniteSets, TLC

(* ---------------------------------------------------------------- bounds *)
\* Number of HTTP requests of one behaviour.
MaxReq == 2
\* submission_date values the store's clock can hand out.
MaxDate == 2

(* -------------------------------------------------------------- constants *)
\* Clients the pool holds at most: the Pool of server.js:44 is built without
\* `max` (pg's default) and without a connection timeout.
PoolMax == 10

Requests == 1..MaxReq
Dates == 1..MaxDate

(* ------------------------------------------------------------ JSON values *)
\* A JSON value of the request body, or undefined for an absent key.
Undefined == [tag |-> "undefined", str |-> ""]
Null == [tag |-> "null", str |-> ""]
Str(s) == [tag |-> "string", str |-> s]
Num(s) == [tag |-> "number", str |-> s]

\* JavaScript truthiness, as used by `!name || !email || !prompt`.
Truthy(v) ==
    CASE v.tag = "string" -> v.str # ""
      [] v.tag = "number" -> v.str # "0"
      [] OTHER -> FALSE

\* Only strings have String.prototype.replace: prompt.replace(...) on any
\* other truthy value throws a TypeError.
HasReplace(v) == v.tag = "string"

\* pg's parameter conversion: undefined and null become SQL NULL, the rest text.
ToText(v) == IF v.tag \in {"undefined", "null"} THEN Null ELSE Str(v.str)

\* `about || 'General'` of the mail subject.
OrDefault(v, d) == IF Truthy(v) THEN v.str ELSE d

Body(n, e, a, p) == [name |-> n, email |-> e, about |-> a, prompt |-> p]
NoBody == Body(Undefined, Undefined, Undefined, Undefined)

\* Request bodies the clients send.
Bodies ==
    { Body(Str("Ada"), Str("ada@x.com"), Str("Hiring"), Str("Let's talk\nThanks")),
      Body(Str("Bob"), Str("bob@x.com"), Undefined, Str("hi")),
      Body(Str(""), Str("ada@x.com"), Undefined, Str("hi")),
      Body(Str("Ada"), Undefined, Str("Hiring"), Str("hi")),
      Body(Str("Ada"), Str("ada@x.com"), Str("Hiring"), Num("0")),
      Body(Str("Ada"), Str("ada@x.com"), Str("Hiring"), Num("5")) }

\* Error messages of the external services.
DbErrors == {"ECONNREFUSED", "relation submissions does not exist"}
MailErrors == {"EAUTH"}
TypeErrorMsg == "prompt.replace is not a function"

(* -------------------------------------------------------------- responses *)
Resp(k, t, rows) == [key |-> k, text |-> t, rows |-> rows]
NoResp == Resp("none", "", <<>>)
MissingMsg == "Missing required fields."
SuccessMsg == "Form submitted and email sent successfully!"
GenericMsg == "Failed to send message. Please check server logs for details (Error 500)."

VARIABLES
    initPc,      \* initializeDatabase: "connect", "query", "ready", "failed"
    tableExists, \* the submissions table exists in the store
    table,       \* rows of submissions, in insert order
    nextId,      \* the SERIAL sequence
    checkedOut,  \* pool clients currently checked out
    req,         \* per request: what it is and where its handler stands
    mails,       \* messages handed to transporter.sendMail, in order
    log,         \* number of console.error lines written
    bootRows     \* rows the store held when the process started

vars == <<initPc, tableExists, table, nextId, checkedOut, req, mails, log, bootRows>>

NewReq ==
    [kind |-> "none", pc |-> "idle", body |-> NoBody, status |-> 0,
     resp |-> NoResp, queries |-> 0, rowId |-> 0, sends |-> 0, err |-> ""]

\* A row left in the store by an earlier run of the process.
OldRow ==
    [id |-> 1, name |-> Str("Eve"), email |-> Str("eve@x.com"), about |-> Null,
     prompt |-> Str("hello"), submission_date |-> 1]

\* The store outlives the process: at startup the table may be missing,
\* empty, or hold rows of earlier runs.
Init ==
    /\ initPc = "connect"
    /\ table \in {<<>>, <<OldRow>>}
    /\ tableExists \in (IF table = <<>> THEN BOOLEAN ELSE {TRUE})
    /\ bootRows = Len(table)
    /\ nextId = Len(table) + 1
    /\ checkedOut = 0
    /\ req = [r \in Requests |-> NewReq]
    /\ mails = <<>>
    /\ log = 0

(* ---------------------------------------------------------------- helpers *)
Set(r, rec) == [req EXCEPT ![r] = rec]

\* Requests are numbered in the order Express dispatches them.
Arrives(r) ==
    /\ req[r].kind = "none"
    /\ \A q \in DOMAIN req : q < r => req[q].kind # "none"

\* Mutant: the presence check forgets prompt.
MissingRequired_NoPrompt(b) == ~Truthy(b.name) \/ ~Truthy(b.email)

\* `if (!name || !email || !prompt)` of POST /submit.
MissingRequired(b) == ~Truthy(b.name) \/ ~Truthy(b.email) \/ ~Truthy(b.prompt)

\* The row the INSERT statement stores: id from the SERIAL sequence,
\* submission_date from the column default.
NewRow(id, b, d) ==
    [id |-> id, name |-> ToText(b.name), email |-> ToText(b.email),
     about |-> ToText(b.about), prompt |-> ToText(b.prompt), submission_date |-> d]

\* NOT NULL columns of the table.
SatisfiesNotNull(row) ==
    row.name # Null /\ row.email # Null /\ row.prompt # Null

\* mailOptions of POST /submit (the html body is kept as its prompt part).
MailOptions(b) ==
    [fromName |-> b.name.str, replyTo |-> b.email.str,
     subject |-> OrDefault(b.about, "General"), prompt |-> b.prompt.str]

\* Mutant: the comparison of an ascending order.
RECURSIVE InsertDesc_Asc(_, _, _)
InsertDesc_Asc(row, sorted, first) ==
    IF sorted = <<>> THEN <<row>>
    ELSE IF \/ row.submission_date < Head(sorted).submission_date
            \/ (first /\ row.submission_date = Head(sorted).submission_date)
         THEN <<row>> \o sorted
         ELSE <<Head(sorted)>> \o InsertDesc_Asc(row, Tail(sorted), first)

\* ORDER BY submission_date DESC: insertion of one row into a list that is
\* already in descending order; `first` is how the store breaks a tie.
RECURSIVE InsertDesc(_, _, _)
InsertDesc(row, sorted, first) ==
    IF sorted = <<>> THEN <<row>>
    ELSE IF \/ row.submission_date > Head(sorted).submission_date
            \/ (first /\ row.submission_date = Head(sorted).submission_date)
         THEN <<row>> \o sorted
         ELSE <<Head(sorted)>> \o InsertDesc(row, Tail(sorted), first)

RECURSIVE OrderByDateDesc(_, _)
OrderByDateDesc(rows, first) ==
    IF rows = <<>> THEN <<>>
    ELSE InsertDesc(Head(rows), OrderByDateDesc(Tail(rows), first), first)

\* The catch block of POST /submit: log, then the generic 500 body.
SubmitCatch(rq, e) ==
    [rq EXCEPT !.pc = "done", !.status = 500,
               !.resp = Resp("message", GenericMsg, <<>>), !.err = e]

\* The catch block of GET /submissions.
ListCatch(rq, e) ==
    [rq EXCEPT !.pc = "done", !.status = 500,
               !.resp = Resp("error", e, <<>>), !.err = e]

(* ------------------------------------------------- initializeDatabase() *)
\* `await pool.connect()` resolves with a client.
InitConnectOK ==
    /\ initPc = "connect"
    /\ checkedOut < PoolMax
    /\ initPc' = "query"
    /\ checkedOut' = checkedOut + 1
    /\ UNCHANGED <<tableExists, table, nextId, req, mails, log, bootRows>>

\* `await pool.connect()` rejects: caught and logged.
InitConnectFail ==
    /\ initPc = "connect"
    /\ initPc' = "failed"
    /\ log' = log + 1
    /\ UNCHANGED <<tableExists, table, nextId, checkedOut, req, mails, bootRows>>

\* Mutant: the statement recreates the table (DROP, then CREATE).
InitQueryOK_Recreate ==
    /\ initPc = "query"
    /\ tableExists' = TRUE
    /\ table' = <<>>
    /\ checkedOut' = checkedOut - 1
    /\ initPc' = "ready"
    /\ UNCHANGED <<nextId, req, mails, log, bootRows>>

\* CREATE TABLE IF NOT EXISTS succeeds, then client.release().
InitQueryOK ==
    /\ initPc = "query"
    /\ tableExists' = TRUE
    /\ checkedOut' = checkedOut - 1
    /\ initPc' = "ready"
    /\ UNCHANGED <<table, nextId, req, mails, log, bootRows>>

\* client.query rejects: control jumps to the catch block, past
\* client.release().
InitQueryFail ==
    /\ initPc = "query"
    /\ initPc' = "failed"
    /\ log' = log + 1
    /\ UNCHANGED <<tableExists, table, nextId, checkedOut, req, mails, bootRows>>

(* ------------------------------------------------------------ static routes *)
\* GET / and GET /submissions.html: res.sendFile of a fixed file.
GetStatic(r, file, exists) ==
    /\ Arrives(r)
    /\ req' = Set(r, [req[r] EXCEPT !.kind = "static", !.pc = "done",
                         !.status = IF exists THEN 200 ELSE 404,
                         !.resp = IF exists THEN Resp("file", file, <<>>) ELSE NoResp])
    /\ UNCHANGED <<initPc, tableExists, table, nextId, checkedOut, mails, log, bootRows>>

(* ------------------------------------------------------------ POST /submit *)
\* The handler up to its first await: the presence check, then pool.query.
PostSubmit(r, b) ==
    /\ Arrives(r)
    /\ req' = Set(r,
         IF MissingRequired(b)
         THEN [req[r] EXCEPT !.kind = "submit", !.body = b, !.pc = "done",
                  !.status = 400, !.resp = Resp("message", MissingMsg, <<>>)]
         ELSE [req[r] EXCEPT !.kind = "submit", !.body = b, !.pc = "waitConn",
                  !.queries = @ + 1])
    /\ UNCHANGED <<initPc, tableExists, table, nextId, checkedOut, mails, log, bootRows>>

(* --------------------------------------------------------- GET /submissions *)
GetSubmissions(r) ==
    /\ Arrives(r)
    /\ req' = Set(r, [req[r] EXCEPT !.kind = "list", !.pc = "waitConn",
                         !.queries = @ + 1])
    /\ UNCHANGED <<initPc, tableExists, table, nextId, checkedOut, mails, log, bootRows>>

(* ---------------------------------------------------------------- pool.query *)
\* Mutant: a pool of one client.
PoolAcquire_Single(r) ==
    /\ req[r].pc = "waitConn"
    /\ checkedOut < 1
    /\ checkedOut' = checkedOut + 1
    /\ req' = Set(r, [req[r] EXCEPT !.pc = "query"])
    /\ UNCHANGED <<initPc, tableExists, table, nextId, mails, log, bootRows>>

\* pool.query checks a client out; with every client checked out the call
\* waits until one is released.
PoolAcquire(r) ==
    /\ req[r].pc = "waitConn"
    /\ checkedOut < PoolMax
    /\ checkedOut' = checkedOut + 1
    /\ req' = Set(r, [req[r] EXCEPT !.pc = "query"])
    /\ UNCHANGED <<initPc, tableExists, table, nextId, mails, log, bootRows>>

\* The store cannot be reached: pool.query rejects without a client.
PoolConnectFail(r, e) ==
    /\ req[r].pc = "waitConn"
    /\ req' = Set(r, IF req[r].kind = "submit" THEN SubmitCatch(req[r], e)
                                               ELSE ListCatch(req[r], e))
    /\ log' = IF req[r].kind = "submit" THEN log + 1 ELSE log
    /\ UNCHANGED <<initPc, tableExists, table, nextId, checkedOut, mails, bootRows>>

\* The INSERT succeeds; pool.query releases the client; the handler resumes,
\* builds mailOptions and calls transporter.sendMail.
InsertOK(r, d) ==
    LET b == req[r].body
        row == NewRow(nextId, b, d)
    IN  /\ req[r].kind = "submit" /\ req[r].pc = "query"
        /\ tableExists
        /\ SatisfiesNotNull(row)
        /\ table' = Append(table, row)
        /\ nextId' = nextId + 1
        /\ checkedOut' = checkedOut - 1
        /\ IF HasReplace(b.prompt)
           THEN /\ mails' = Append(mails, MailOptions(b))
                /\ req' = Set(r, [req[r] EXCEPT !.rowId = nextId, !.pc = "mail",
                                     !.sends = @ + 1])
                /\ log' = log
           ELSE /\ mails' = mails
                /\ req' = Set(r, SubmitCatch([req[r] EXCEPT !.rowId = nextId],
                                             TypeErrorMsg))
                /\ log' = log + 1
        /\ UNCHANGED <<initPc, tableExists, bootRows>>

\* Mutant: the rejection of the INSERT is swallowed and the mail is sent.
InsertFail_SendsAnyway(r, e) ==
    /\ req[r].kind = "submit" /\ req[r].pc = "query"
    /\ checkedOut' = checkedOut - 1
    /\ mails' = Append(mails, MailOptions(req[r].body))
    /\ req' = Set(r, [req[r] EXCEPT !.pc = "mail", !.sends = @ + 1, !.err = e])
    /\ log' = log + 1
    /\ UNCHANGED <<initPc, tableExists, table, nextId, bootRows>>

\* The INSERT fails; pool.query releases the client and rejects.
InsertFail(r, e) ==
    /\ req[r].kind = "submit" /\ req[r].pc = "query"
    /\ checkedOut' = checkedOut - 1
    /\ req' = Set(r, SubmitCatch(req[r], e))
    /\ log' = log + 1
    /\ UNCHANGED <<initPc, tableExists, table, nextId, mails, bootRows>>

\* transporter.sendMail resolves: res.json of the success message.
SendMailOK(r) ==
    /\ req[r].pc = "mail"
    /\ req' = Set(r, [req[r] EXCEPT !.pc = "done", !.status = 200,
                         !.resp = Resp("message", SuccessMsg, <<>>)])
    /\ UNCHANGED <<initPc, tableExists, table, nextId, checkedOut, mails, log, bootRows>>

\* Mutant: a failed send deletes the request's row again.
SendMailFail_Rollback(r, e) ==
    /\ req[r].pc = "mail"
    /\ req' = Set(r, SubmitCatch(req[r], e))
    /\ table' = SelectSeq(table, LAMBDA row : row.id # req[r].rowId)
    /\ log' = log + 1
    /\ UNCHANGED <<initPc, tableExists, nextId, checkedOut, mails, bootRows>>

\* transporter.sendMail rejects.
SendMailFail(r, e) ==
    /\ req[r].pc = "mail"
    /\ req' = Set(r, SubmitCatch(req[r], e))
    /\ log' = log + 1
    /\ UNCHANGED <<initPc, tableExists, table, nextId, checkedOut, mails, bootRows>>

\* The SELECT succeeds: res.json(result.rows).
SelectOK(r, first) ==
    /\ req[r].kind = "list" /\ req[r].pc = "query"
    /\ tableExists
    /\ checkedOut' = checkedOut - 1
    /\ req' = Set(r, [req[r] EXCEPT !.pc = "done", !.status = 200,
                         !.resp = Resp("rows", "", OrderByDateDesc(table, first))])
    /\ UNCHANGED <<initPc, tableExists, table, nextId, mails, log, bootRows>>

\* The SELECT fails.
SelectFail(r, e) ==
    /\ req[r].kind = "list" /\ req[r].pc = "query"
    /\ checkedOut' = checkedOut - 1
    /\ req' = Set(r, ListCatch(req[r], e))
    /\ UNCHANGED <<initPc, tableExists, table, nextId, mails, log, bootRows>>

(* ------------------------------------------------------------ specification *)
Next ==
    \/ InitConnectOK
    \/ InitConnectFail
    \/ InitQueryOK
    \/ InitQueryFail
    \/ \E r \in DOMAIN req, f \in {"index.html", "submissions.html"}, x \in BOOLEAN :
          GetStatic(r, f, x)
    \/ \E r \in DOMAIN req, b \in Bodies : PostSubmit(r, b)
    \/ \E r \in DOMAIN req : GetSubmissions(r)
    \/ \E r \in DOMAIN req : PoolAcquire(r)
    \/ \E r \in DOMAIN req, e \in DbErrors : PoolConnectFail(r, e)
    \/ \E r \in DOMAIN req, d \in Dates : InsertOK(r, d)
    \/ \E r \in DOMAIN req, e \in DbErrors : InsertFail(r, e)
    \/ \E r \in DOMAIN req : SendMailOK(r)
    \/ \E r \in DOMAIN req, e \in MailErrors : SendMailFail(r, e)
    \/ \E r \in DOMAIN req, first \in BOOLEAN : SelectOK(r, first)
    \/ \E r \in DOMAIN req, e \in DbErrors : SelectFail(r, e)

Spec == Init /\ [][Next]_vars

\* The server after a successful startup, with a healthy store, under a burst
\* of GET /submissions: one request more than the pool has clients.
LoadRequests == 1..(PoolMax + 1)

InitLoad ==
    /\ initPc = "ready"
    /\ table = <<>>
    /\ tableExists = TRUE
    /\ bootRows = 0
    /\ nextId = 1
    /\ checkedOut = 0
    /\ req = [r \in LoadRequests |-> NewReq]
    /\ mails = <<>>
    /\ log = 0

NextLoad ==
    \/ \E r \in DOMAIN req : GetSubmissions(r)
    \/ \E r \in DOMAIN req : PoolAcquire(r)
    \/ \E r \in DOMAIN req, first \in BOOLEAN : SelectOK(r, first)

SpecLoad == InitLoad /\ [][NextLoad]_vars

(* ------------------------------------------------------------- properties *)
Reqs == DOMAIN req
Submits == {r \in Reqs : req[r].kind = "submit"}
Lists == {r \in Reqs : req[r].kind = "list"}
Done(r) == req[r].pc = "done"
RowsOf(id) == {i \in 1..Len(table) : table[i].id = id}
IsPrefix(s, t) == Len(s) <= Len(t) /\ SubSeq(t, 1, Len(s)) = s
IsSortedDesc(rows) ==
    \A i \in 1..Len(rows) - 1 : rows[i].submission_date >= rows[i + 1].submission_date
SameRows(rows, t) ==
    /\ Len(rows) = Len(t)
    /\ {rows[i] : i \in 1..Len(rows)} = {t[i] : i \in 1..Len(t)}
\* A field the body lacks: absent, null, the empty string or 0.
Lacks(v) == v \in {Undefined, Null, Str(""), Num("0")}
LacksRequired(b) == Lacks(b.name) \/ Lacks(b.email) \/ Lacks(b.prompt)
\* The step in which request r's INSERT succeeds.
Inserted(r) == req[r].kind = "submit" /\ req[r].pc = "query" /\ req'[r].rowId # 0

\* C1: a POST /submit whose body lacks name, email or prompt is answered 400
\* in its arrival step, calls neither pool.query nor sendMail, and adds no row.
C1_MissingFieldsRejected ==
    /\ \A r \in Submits : LacksRequired(req[r].body) =>
          /\ Done(r) /\ req[r].status = 400
          /\ req[r].resp = Resp("message", MissingMsg, <<>>)
          /\ req[r].queries = 0 /\ req[r].sends = 0 /\ req[r].rowId = 0
    /\ Len(table) = bootRows + Cardinality({r \in Submits : req[r].rowId # 0})
    /\ Len(mails) = Cardinality({r \in Submits : req[r].sends # 0})

C1_Witness ==
    \E r, q \in Submits :
        /\ LacksRequired(req[r].body) /\ Done(r)
        /\ req[q].status = 200 /\ r < q /\ Len(table) = bootRows + 1

\* C2: every POST /submit with truthy name, email and prompt that met no
\* database error and no mail error has added exactly one row, made its send
\* and answered 200 with the success message.
C2_ValidSubmitSucceeds ==
    \A r \in Submits :
        (/\ ~LacksRequired(req[r].body) /\ Done(r)
         /\ req[r].err \notin DbErrors \cup MailErrors) =>
            /\ req[r].status = 200
            /\ req[r].resp = Resp("message", SuccessMsg, <<>>)
            /\ Cardinality(RowsOf(req[r].rowId)) = 1
            /\ req[r].sends = 1

\* C3: a request whose database call failed answered 500, added no row and
\* made no send; a request that made a send has its row in the table.
C3_NoMailWithoutInsert ==
    /\ \A r \in Submits : (Done(r) /\ req[r].err \in DbErrors) =>
          req[r].status = 500 /\ req[r].rowId = 0 /\ req[r].sends = 0
    /\ \A r \in Lists : (Done(r) /\ req[r].err \in DbErrors) => req[r].status = 500
    /\ \A r \in Submits : req[r].sends > 0 =>
          req[r].rowId # 0 /\ Cardinality(RowsOf(req[r].rowId)) = 1
    /\ Len(table) = bootRows + Cardinality({r \in Submits : req[r].rowId # 0})
    /\ Len(mails) = Cardinality({r \in Submits : req[r].sends # 0})

C3_Witness ==
    \E r \in Submits, l \in Lists :
        /\ Done(r) /\ req[r].err \in DbErrors /\ req[r].queries = 1
        /\ Done(l) /\ req[l].err \in DbErrors
        /\ bootRows = 1 /\ Len(table) = 1

\* C4: a request whose insert succeeded and whose send failed answered 500
\* and its row is still in the table, once.
C4_MailFailureKeepsRow ==
    \A r \in Submits : (Done(r) /\ req[r].err \in MailErrors) =>
        /\ req[r].status = 500
        /\ req[r].rowId # 0
        /\ Cardinality(RowsOf(req[r].rowId)) = 1
        /\ table[CHOOSE i \in RowsOf(req[r].rowId) : TRUE] =
              NewRow(req[r].rowId, req[r].body,
                     table[CHOOSE i \in RowsOf(req[r].rowId) : TRUE].submission_date)

C4_Witness ==
    \E r \in Submits, l \in Lists :
        /\ Done(r) /\ req[r].err \in MailErrors
        /\ req[l].status = 200 /\ Len(req[l].resp.rows) = bootRows + 1

\* C5: two storage-dependent requests of the same route that both answered
\* 500 carry the same body, whatever error each of them met.
C5_GenericErrorBody ==
    \A r, q \in Submits \cup Lists :
        (req[r].kind = req[q].kind /\ req[r].status = 500 /\ req[q].status = 500) =>
            req[r].resp = req[q].resp

\* C6: the clients checked out of the pool are exactly those of the
\* operations in progress: one per running query, one for a running
\* initialisation.
C6_ClientsReleased ==
    checkedOut = Cardinality({r \in Reqs : req[r].pc = "query"})
                 + (IF initPc = "query" THEN 1 ELSE 0)

\* C7: every request whose insert succeeded has made exactly one send, no
\* request has made more than one, and a failed send is answered 500.
C7_OneSendPerInsert ==
    /\ \A r \in Submits : req[r].rowId # 0 => req[r].sends = 1
    /\ \A r \in Reqs : req[r].sends <= 1
    /\ \A r \in Submits : (Done(r) /\ req[r].err \in MailErrors) => req[r].status = 500

\* C8: every step keeps the rows there are, unchanged and in place; the table
\* changes only in the step of a successful INSERT, by one appended row.
C8_AppendOnly ==
    [][/\ IsPrefix(table, table')
       /\ table' # table =>
             /\ Len(table') = Len(table) + 1
             /\ \E r \in Reqs : Inserted(r)]_vars

C8_Witness ==
    /\ Len(table) = 2
    /\ \E l \in Lists : req[l].status = 200 /\ Len(req[l].resp.rows) = 1

\* C9: the step in which GET /submissions answers 200 returns exactly the rows
\* of the table, in non-increasing submission_date order.
C9_ListSortedComplete ==
    [][\A r \in Reqs :
          (req[r].kind = "list" /\ req[r].pc = "query" /\ req'[r].status = 200) =>
              /\ req'[r].resp.key = "rows"
              /\ SameRows(req'[r].resp.rows, table)
              /\ IsSortedDesc(req'[r].resp.rows)]_vars

C9_Witness ==
    \E l \in Lists :
        /\ req[l].status = 200
        /\ Len(req[l].resp.rows) = 2
        /\ req[l].resp.rows[1].id = 2
        /\ req[l].resp.rows[1].submission_date > req[l].resp.rows[2].submission_date

====
